---- MODULE Spec2Model ----
(***************************************************************************)
(* A model of automatic_notes_upload.py (class NotesPublisher).            *)
(*                                                                         *)
(* Text is modelled character by character: a Python str is a sequence of  *)
(* one-character strings.  Characters that are awkward to write carry a    *)
(* name: "NL" is the line feed, "BULLET" is U+2022, "OPEN" is U+2610 and   *)
(* "CLOSED" is U+2611, "E_ACUTE"/"e_acute" are U+00C9/U+00E9, "I_DOT" is   *)
(* U+0130 and "c_dot" is the combining dot U+0307 that its lower-casing    *)
(* produces.                                                               *)
(***************************************************************************)
EXTENDS Integers, Sequences, FiniteSets, TLC

VARIABLES
    \* process_content on one body text (SpecText)
    content,      \* the content argument of process_content
    body,         \* the local variable content as the function rewrites it
    tags,         \* the local variable tags
    tpc,          \* the statement of process_content that runs next
    \* the slug and filename of create_markdown_post (SpecSlug)
    title,        \* note['title']
    date,         \* note['modified_date'] as <<year, month, day>>
    slug,         \* the local variable slug
    filename,     \* the local variable filename
    spc,          \* the statement of create_markdown_post that runs next
    \* the attachments of process_content and copy_image_to_assets (SpecImg)
    images,       \* the images argument of process_content
    img_i,        \* the position in images of the for loop of line 202
    returned,     \* what copy_image_to_assets returned for images[1..img_i-1]
    processed_images, \* the local variable processed_images
    copies,       \* calls of copy_image_to_assets made so far
    assets,       \* the files of assets_dir: a set of [name, data]
    clock,        \* time.time()
    \* publish_notes (Spec)
    pc,           \* where publish_notes stands
    stdout,       \* result.stdout of the osascript call
    notes,        \* the local variable notes
    idx,          \* the position in notes of the for loop of line 261
    published_files, \* the local variable published_files
    posts,        \* the files of posts_dir: a set of [name, data]
    calls,        \* positions of the notes create_markdown_post was called for
    written,      \* positions of the notes whose document was written
    gitLog        \* the git commands run so far

textVars == <<content, body, tags, tpc>>
slugVars == <<title, date, slug, filename, spc>>
imgVars == <<images, img_i, returned, processed_images, copies, assets, clock>>
runVars == <<pc, stdout, notes, idx, published_files, posts, calls, written, gitLog>>
vars == <<textVars, slugVars, imgVars, runVars>>

(***************************************************************************)
(* Bounds of the model.                                                    *)
(***************************************************************************)
MaxLen == 5          \* longest body text given to process_content
MaxTitleLen == 4     \* longest title given to the slug computation
MaxImages == 2       \* most attachments given to one process_content
MaxCopies == 2       \* most calls of copy_image_to_assets in a behaviour
MaxClock == 1        \* the clock stops advancing here
MaxNotes == 2        \* most records in the export of one run

(***************************************************************************)
(* Python str primitives.                                                  *)
(***************************************************************************)
IsSpace(c) == c \in {" ", "NL"}

IsDigit(c) == c \in {"0", "1", "2", "3", "4", "5", "6", "7", "8", "9"}

LowerSeq ==
    <<"a", "b", "c", "d", "e", "f", "g", "h", "i", "j", "k", "l", "m",
     "n", "o", "p", "q", "r", "s", "t", "u", "v", "w", "x", "y", "z">>

UpperSeq ==
    <<"A", "B", "C", "D", "E", "F", "G", "H", "I", "J", "K", "L", "M",
     "N", "O", "P", "Q", "R", "S", "T", "U", "V", "W", "X", "Y", "Z">>

Range(f) == {f[i] : i \in DOMAIN f}

LowerLetters == Range(LowerSeq)

UpperLetters == Range(UpperSeq)

\* \w of a Python str pattern: letters (of any script), digits, underscore
IsWord(c) ==
    \/ c \in LowerLetters \cup UpperLetters
    \/ c \in {"e_acute", "E_ACUTE", "I_DOT"}
    \/ IsDigit(c)
    \/ c = "_"

\* F applied to the value of e: e is evaluated once, before F uses it
With(e, F(_)) == CHOOSE y \in {F(x) : x \in {e}} : TRUE

Min(a, b) == IF a < b THEN a ELSE b

Max(a, b) == IF a > b THEN a ELSE b

\* s[a:b] with Python's treatment of negative and out-of-range indices
PySlice(s, a, b) ==
    LET n  == Len(s)
        lo == IF a < 0 THEN Max(a + n, 0) ELSE Min(a, n)
        hi == IF b < 0 THEN Max(b + n, 0) ELSE Min(b, n)
    IN  SubSeq(s, lo + 1, hi)

\* s[a:]
PyFrom(s, a) == PySlice(s, a, Len(s))

\* s.startswith(p) at 1-based position i
MatchAt(s, p, i) ==
    /\ i + Len(p) - 1 <= Len(s)
    /\ \A k \in 1..Len(p) : s[i + k - 1] = p[k]

\* s.find(p): the 0-based offset of the first occurrence, or -1
Find(s, p) ==
    LET hits == {i \in 1..Len(s) : MatchAt(s, p, i)}
    IN  IF hits = {} THEN -1
        ELSE (CHOOSE i \in hits : \A j \in hits : i <= j) - 1

RECURSIVE LStrip(_)
LStrip(s) ==
    IF s # <<>> /\ IsSpace(Head(s)) THEN LStrip(Tail(s)) ELSE s

RECURSIVE RStrip(_)
RStrip(s) ==
    IF s # <<>> /\ IsSpace(s[Len(s)])
    THEN RStrip(SubSeq(s, 1, Len(s) - 1))
    ELSE s

\* s.strip()
Strip(s) == With(With(s, LStrip), RStrip)

\* s.split(sep), sep not empty
RECURSIVE Split(_, _)
Split(s, sep) ==
    With(Find(s, sep),
         LAMBDA i : IF i = -1 THEN <<s>>
                    ELSE <<PySlice(s, 0, i)>>
                         \o With(PyFrom(s, i + Len(sep)), LAMBDA rest : Split(rest, sep)))

\* sep.join(ss)
RECURSIVE Join(_, _)
Join(sep, ss) ==
    IF ss = <<>> THEN <<>>
    ELSE IF Len(ss) = 1 THEN ss[1]
    ELSE ss[1] \o sep \o Join(sep, Tail(ss))

\* the strings over alphabet A of length at most n
RECURSIVE StringsUpTo(_, _)
StringsUpTo(A, n) ==
    IF n = 0 THEN {<<>>}
    ELSE LET shorter == StringsUpTo(A, n - 1)
         IN  shorter \cup {Append(s, c) : s \in shorter, c \in A}

(***************************************************************************)
(* The regular expressions of process_content, as re's leftmost,           *)
(* non-overlapping scan computes them.  Positions are 1-based.             *)
(***************************************************************************)

\* the last position of the run of \w characters that starts at i (i-1: none)
RECURSIVE WordRunEnd(_, _)
WordRunEnd(s, i) ==
    IF i <= Len(s) /\ IsWord(s[i]) THEN WordRunEnd(s, i + 1) ELSE i - 1

\* the last position of the run of \d characters that starts at i (i-1: none)
RECURSIVE DigitRunEnd(_, _)
DigitRunEnd(s, i) ==
    IF i <= Len(s) /\ IsDigit(s[i]) THEN DigitRunEnd(s, i + 1) ELSE i - 1

\* re.findall(r'#(\w+)', s), scanning from position i
RECURSIVE FindTags(_, _)
FindTags(s, i) ==
    IF i > Len(s) THEN <<>>
    ELSE LET j == WordRunEnd(s, i + 1)
         IN  IF s[i] = "#" /\ j >= i + 1
             THEN <<SubSeq(s, i + 1, j)>> \o FindTags(s, j + 1)
             ELSE FindTags(s, i + 1)

\* re.sub(r'\s#(\w+)(?=\s|$)', r' \1', s), scanning from position i
RECURSIVE SubStandaloneTags(_, _)
SubStandaloneTags(s, i) ==
    IF i > Len(s) THEN <<>>
    ELSE LET j == WordRunEnd(s, i + 2)
         IN  IF /\ IsSpace(s[i])
                /\ i + 1 <= Len(s)
                /\ s[i + 1] = "#"
                /\ j >= i + 2
                /\ (j = Len(s) \/ IsSpace(s[j + 1]))
             THEN <<" ">> \o SubSeq(s, i + 2, j) \o SubStandaloneTags(s, j + 1)
             ELSE <<s[i]>> \o SubStandaloneTags(s, i + 1)

\* re.sub(r'•\s', '* ', s), scanning from position i
RECURSIVE SubBullets(_, _)
SubBullets(s, i) ==
    IF i > Len(s) THEN <<>>
    ELSE IF s[i] = "BULLET" /\ i + 1 <= Len(s) /\ IsSpace(s[i + 1])
         THEN <<"*", " ">> \o SubBullets(s, i + 2)
         ELSE <<s[i]>> \o SubBullets(s, i + 1)

\* re.sub(r'^\d+\.\s', '1. ', s, flags=re.MULTILINE), scanning from position i
RECURSIVE SubNumbered(_, _)
SubNumbered(s, i) ==
    IF i > Len(s) THEN <<>>
    ELSE LET j == DigitRunEnd(s, i)
         IN  IF /\ (i = 1 \/ s[i - 1] = "NL")
                /\ j >= i
                /\ j + 2 <= Len(s)
                /\ s[j + 1] = "."
                /\ IsSpace(s[j + 2])
             THEN <<"1", ".", " ">> \o SubNumbered(s, j + 3)
             ELSE <<s[i]>> \o SubNumbered(s, i + 1)

\* re.sub(glyph, repl, s) for a one-character pattern
RECURSIVE SubGlyph(_, _, _)
SubGlyph(s, glyph, repl) ==
    IF s = <<>> THEN <<>>
    ELSE (IF Head(s) = glyph THEN repl ELSE <<Head(s)>>)
         \o SubGlyph(Tail(s), glyph, repl)

\* the position of the closing d of d(.+?)d opened at i, or 0: the first d
\* at i+2 or later that no line feed separates from i
ClosingAt(s, d, i) ==
    LET ends == {k \in (i + 2)..Len(s) :
                    /\ s[k] = d
                    /\ \A m \in (i + 1)..(k - 1) : s[m] # "NL"}
    IN  IF ends = {} THEN 0 ELSE CHOOSE k \in ends : \A m \in ends : k <= m

\* re.sub(d + r'(.+?)' + d, w + r'\1' + w, s), scanning from position i
RECURSIVE SubWrapped(_, _, _, _)
SubWrapped(s, d, w, i) ==
    IF i > Len(s) THEN <<>>
    ELSE LET k == ClosingAt(s, d, i)
         IN  IF s[i] = d /\ k # 0
             THEN w \o SubSeq(s, i + 1, k - 1) \o w \o SubWrapped(s, d, w, k + 1)
             ELSE <<s[i]>> \o SubWrapped(s, d, w, i + 1)

(***************************************************************************)
(* process_content, statement by statement (lines 179-198).                *)
(***************************************************************************)
ExtractTags(s) == FindTags(s, 1)

StripTags(s) == SubStandaloneTags(s, 1)

ReplaceBullets(s) == SubBullets(s, 1)

ReplaceNumbered(s) == SubNumbered(s, 1)

ReplaceOpen(s) == SubGlyph(s, "OPEN", <<"-", " ", "[", " ", "]">>)

ReplaceClosed(s) == SubGlyph(s, "CLOSED", <<"-", " ", "[", "x", "]">>)

ReplaceCheckboxes(s) == With(With(s, ReplaceOpen), ReplaceClosed)

Italics(s) == SubWrapped(s, "_", <<"*">>, 1)

Bold(s) == SubWrapped(s, "*", <<"*", "*">>, 1)

\* the content that reaches "# Process images" (line 200)
ProcessText(s) ==
    With(With(With(With(With(With(s, StripTags), ReplaceBullets), ReplaceNumbered),
                   ReplaceCheckboxes), Italics), Bold)

(***************************************************************************)
(* SpecText: process_content applied to every body text of the bound,      *)
(* without attachments.                                                    *)
(***************************************************************************)
TextAlphabet == {"#", "a", "1", ".", " ", "NL", "_", "*", "BULLET", "OPEN"}

SlugIdle ==
    /\ title = <<>>
    /\ date = <<2024, 1, 5>>
    /\ slug = <<>>
    /\ filename = <<>>
    /\ spc = "idle"

ImgIdle ==
    /\ images = <<>>
    /\ img_i = 1
    /\ returned = <<>>
    /\ processed_images = <<>>
    /\ copies = 0
    /\ assets = {}
    /\ clock = 0

RunIdle ==
    /\ pc = "idle"
    /\ stdout = <<>>
    /\ notes = <<>>
    /\ idx = 1
    /\ published_files = <<>>
    /\ posts = {}
    /\ calls = <<>>
    /\ written = <<>>
    /\ gitLog = <<>>

TextInit ==
    /\ content \in StringsUpTo(TextAlphabet, MaxLen)
    /\ body = content
    /\ tags = <<>>
    /\ tpc = "tags"
    /\ SlugIdle
    /\ ImgIdle
    /\ RunIdle

TextExtractTags ==
    /\ tpc = "tags"
    /\ tags' = ExtractTags(body)
    /\ tpc' = "strip"
    /\ UNCHANGED <<content, body, slugVars, imgVars, runVars>>

TextStripTags ==
    /\ tpc = "strip"
    /\ body' = StripTags(body)
    /\ tpc' = "lists"
    /\ UNCHANGED <<content, tags, slugVars, imgVars, runVars>>

TextStructural ==
    /\ tpc = "lists"
    /\ body' = With(With(With(body, ReplaceBullets), ReplaceNumbered), ReplaceCheckboxes)
    /\ tpc' = "emphasis"
    /\ UNCHANGED <<content, tags, slugVars, imgVars, runVars>>

TextEmphasis ==
    /\ tpc = "emphasis"
    /\ body' = With(With(body, Italics), Bold)
    /\ tpc' = "done"
    /\ UNCHANGED <<content, tags, slugVars, imgVars, runVars>>

TextNext ==
    \/ TextExtractTags
    \/ TextStripTags
    \/ TextStructural
    \/ TextEmphasis

SpecText == TextInit /\ [][TextNext]_vars

(***************************************************************************)
(* The slug and the filename of create_markdown_post (lines 220-225).      *)
(***************************************************************************)

\* str.lower() of one character; U+0130 lower-cases to two characters
LowerChar(c) ==
    CASE c \in UpperLetters ->
             <<LowerSeq[CHOOSE i \in 1..Len(UpperSeq) : UpperSeq[i] = c]>>
      [] c = "E_ACUTE" -> <<"e_acute">>
      [] c = "I_DOT" -> <<"i", "c_dot">>
      [] OTHER -> <<c>>

\* s.lower()
RECURSIVE Lower(_)
Lower(s) == IF s = <<>> THEN <<>> ELSE LowerChar(Head(s)) \o Lower(Tail(s))

\* the character class [a-zA-Z0-9-]
InSlugClass(c) ==
    c \in LowerLetters \cup UpperLetters \/ IsDigit(c) \/ c = "-"

\* re.sub(r'[^a-zA-Z0-9-]', '-', s)
ReplaceUnsafe(s) == [i \in 1..Len(s) |-> IF InSlugClass(s[i]) THEN s[i] ELSE "-"]

\* mutant of CollapseDashes: runs of '-' are kept
KeepDashRuns(s) == s

\* re.sub(r'-+', '-', s)
RECURSIVE CollapseDashes(_)
CollapseDashes(s) ==
    IF s = <<>> THEN <<>>
    ELSE IF Head(s) = "-" /\ Len(s) >= 2 /\ s[2] = "-"
         THEN CollapseDashes(Tail(s))
         ELSE <<Head(s)>> \o CollapseDashes(Tail(s))

\* s.strip('-')
RECURSIVE StripDashes(_)
StripDashes(s) ==
    IF s # <<>> /\ Head(s) = "-" THEN StripDashes(Tail(s))
    ELSE IF s # <<>> /\ s[Len(s)] = "-"
         THEN StripDashes(SubSeq(s, 1, Len(s) - 1))
         ELSE s

\* lines 221-222
Slugify(t) == With(With(With(With(t, Lower), ReplaceUnsafe), CollapseDashes), StripDashes)

DigitChars == <<"0", "1", "2", "3", "4", "5", "6", "7", "8", "9">>

\* n in decimal, zero-padded to w digits (strftime's %Y, %m, %d)
RECURSIVE Padded(_, _)
Padded(n, w) ==
    IF w = 0 THEN <<>>
    ELSE Append(Padded(n \div 10, w - 1), DigitChars[(n % 10) + 1])

\* modified_date.strftime('%Y-%m-%d'), line 224
DateStr(d) == Padded(d[1], 4) \o <<"-">> \o Padded(d[2], 2) \o <<"-">> \o Padded(d[3], 2)

\* f"{date_str}-{slug}.md", line 225
MakeFilename(d, sl) == DateStr(d) \o <<"-">> \o sl \o <<".", "m", "d">>

(***************************************************************************)
(* SpecSlug: the slug and filename computed for every title of the bound.  *)
(***************************************************************************)
TitleAlphabet == {"a", "A", "1", "-", " ", "E_ACUTE", "I_DOT"}

Dates == {<<2024, 1, 5>>, <<2025, 12, 31>>}

TextIdle ==
    /\ content = <<>>
    /\ body = <<>>
    /\ tags = <<>>
    /\ tpc = "idle"

SlugInit ==
    /\ title \in StringsUpTo(TitleAlphabet, MaxTitleLen)
    /\ date \in Dates
    /\ slug = <<>>
    /\ filename = <<>>
    /\ spc = "slug"
    /\ TextIdle
    /\ ImgIdle
    /\ RunIdle

SlugMake ==
    /\ spc = "slug"
    /\ slug' = Slugify(title)
    /\ spc' = "filename"
    /\ UNCHANGED <<title, date, filename, textVars, imgVars, runVars>>

FilenameMake ==
    /\ spc = "filename"
    /\ filename' = MakeFilename(date, slug)
    /\ spc' = "done"
    /\ UNCHANGED <<title, date, slug, textVars, imgVars, runVars>>

SlugNext ==
    \/ SlugMake
    \/ FilenameMake

SpecSlug == SlugInit /\ [][SlugNext]_vars

(***************************************************************************)
(* copy_image_to_assets (lines 116-175) and the attachment loop of         *)
(* process_content (lines 200-211).                                        *)
(***************************************************************************)
FileScheme == <<"f", "i", "l", "e", ":", "/", "/">>

AssetsUrl ==
    <<"/", "a", "s", "s", "e", "t", "s", "/", "i", "m", "a", "g", "e", "s", "/">>

DefaultExt == <<".", "p", "n", "g">>

\* None; callers only test its truth value, and no path returned is empty
None == <<>>

\* the source files on disk: path -> [data, readable]
Files ==
    (<<"/", "a", ".", "p", "n", "g">> :> [data |-> <<"x", "y">>, readable |-> TRUE])
    @@ (<<"/", "b", ".", "p", "n", "g">> :> [data |-> <<"x", "y">>, readable |-> TRUE])
    @@ (<<"/", "d", ".", "P", "N", "G">> :> [data |-> <<"x", "y">>, readable |-> TRUE])
    @@ (<<"/", "c">> :> [data |-> <<"z">>, readable |-> TRUE])
    @@ (<<"/", "e", ".", "p", "n", "g">> :> [data |-> <<>>, readable |-> TRUE])
    @@ (<<"/", "u", ".", "p", "n", "g">> :> [data |-> <<"x", "y">>, readable |-> FALSE])

\* the attachment paths a note may carry: the files above, one of them with
\* the file:// prefix, a missing file, and a bare prefix
ImagePaths ==
    DOMAIN Files
    \cup {FileScheme \o <<"/", "a", ".", "p", "n", "g">>,
          <<"/", "m", ".", "p", "n", "g">>,
          FileScheme}

\* s.rfind(c): the 0-based offset of the last occurrence, or -1
RFind(s, c) ==
    LET hits == {i \in 1..Len(s) : s[i] = c}
    IN  IF hits = {} THEN -1
        ELSE (CHOOSE i \in hits : \A j \in hits : i >= j) - 1

\* os.path.splitext(p)[1]: from the last dot of the last path component,
\* unless only dots precede it there
SplitExt(p) ==
    LET sep == RFind(p, "/")
        dot == RFind(p, ".")
    IN  IF dot > sep /\ \E i \in (sep + 1)..(dot - 1) : p[i + 1] # "."
        THEN PyFrom(p, dot)
        ELSE <<>>

\* n in decimal
RECURSIVE Decimal(_)
Decimal(n) ==
    IF n < 10 THEN <<DigitChars[n + 1]>>
    ELSE Append(Decimal(n \div 10), DigitChars[(n % 10) + 1])

\* str(time.time()).encode()
TimeStr(now) == Decimal(now)

\* hashlib.md5(data).hexdigest()[:10], taken to be free of collisions: the
\* digest of a byte string stands for that byte string
Md5Hex(data) == data

\* line 137
FileHash(data, now) == Md5Hex(data \o TimeStr(now))

\* line 140
Extension(p) == IF Lower(SplitExt(p)) # <<>> THEN Lower(SplitExt(p)) ELSE DefaultExt

\* a directory after a file is created or overwritten in it
WriteFile(dir, name, data) ==
    {f \in dir : f.name # name} \cup {[name |-> name, data |-> data]}

CopyOutcomes == {"cp", "shutil", "fail"}

\* the body of the try block (lines 119-169) on directory dir at time now;
\* out: cp copies the file, or cp fails and shutil.copy2 copies it, or both
\* fail.  raised: an exception left the block.
CopyImageTry(path, dir, now, out) ==
    LET p == IF MatchAt(path, FileScheme, 1) THEN PyFrom(path, Len(FileScheme)) ELSE path
    IN  IF p = <<>> \/ p \notin DOMAIN Files
        THEN [ret |-> None, raised |-> FALSE, dir |-> dir]
        ELSE IF ~Files[p].readable
        THEN [ret |-> None, raised |-> TRUE, dir |-> dir]
        ELSE LET data == Files[p].data
                 new_filename == FileHash(data, now) \o Extension(p)
             IN  IF out = "fail"
                 THEN [ret |-> None, raised |-> TRUE, dir |-> dir]
                 ELSE [ret |-> IF Len(data) > 0 THEN AssetsUrl \o new_filename ELSE None,
                       raised |-> FALSE,
                       dir |-> WriteFile(dir, new_filename, data)]

\* mutant of CopyImageToAssets: no except clause around the try block
CopyImageUncaught(path, dir, now, out) == CopyImageTry(path, dir, now, out)

\* copy_image_to_assets: the try block and its except clause (lines 171-175)
CopyImageToAssets(path, dir, now, out) ==
    LET r == CopyImageTry(path, dir, now, out)
    IN  IF r.raised THEN [ret |-> None, raised |-> FALSE, dir |-> r.dir] ELSE r

\* f"![Image]({new_path})"
ImageRef(new_path) ==
    <<"!", "[", "I", "m", "a", "g", "e", "]", "(">> \o new_path \o <<")">>

\* lines 204-205
AppendRef(refs, new_path) ==
    IF new_path # None THEN Append(refs, ImageRef(new_path)) ELSE refs

\* lines 208-209
AppendImages(text, refs) ==
    IF refs # <<>>
    THEN text \o <<"NL", "NL">> \o Join(<<"NL", "NL">>, refs)
    ELSE text

\* the sequences over S of length at most n
RECURSIVE SeqsUpTo(_, _)
SeqsUpTo(S, n) ==
    IF n = 0 THEN {<<>>}
    ELSE LET shorter == SeqsUpTo(S, n - 1)
         IN  shorter \cup {Append(q, x) : q \in shorter, x \in S}

(***************************************************************************)
(* SpecImg: process_content called again and again (for the notes of one   *)
(* run and of later runs) on attachments of the bound, the assets          *)
(* directory kept between calls, the clock advancing at any moment.        *)
(***************************************************************************)
ImgContents == {<<"BULLET", " ", "#", "a">>}

ImgInit ==
    /\ TextIdle
    /\ SlugIdle
    /\ ImgIdle
    /\ RunIdle

\* process_content is called: lines 179-201
ImgBegin ==
    /\ tpc \in {"idle", "done"}
    /\ \E c \in ImgContents, imgs \in SeqsUpTo(ImagePaths, MaxImages) :
           /\ copies + Len(imgs) <= MaxCopies
           /\ content' = c
           /\ images' = imgs
    /\ tags' = ExtractTags(content')
    /\ body' = ProcessText(content')
    /\ img_i' = 1
    /\ returned' = <<>>
    /\ processed_images' = <<>>
    /\ tpc' = "images"
    /\ UNCHANGED <<copies, assets, clock, slugVars, runVars>>

\* one iteration of the for loop: lines 202-205
ImgCopy ==
    /\ tpc = "images"
    /\ img_i <= Len(images)
    /\ \E out \in CopyOutcomes :
           LET r == CopyImageToAssets(images[img_i], assets, clock, out)
           IN  /\ assets' = r.dir
               /\ returned' = Append(returned, r.ret)
               /\ processed_images' =
                      IF r.raised THEN processed_images
                      ELSE AppendRef(processed_images, r.ret)
               /\ tpc' = IF r.raised THEN "raised" ELSE "images"
    /\ img_i' = img_i + 1
    /\ copies' = copies + 1
    /\ UNCHANGED <<content, body, tags, images, clock, slugVars, runVars>>

\* the loop is over: lines 207-211
ImgAppend ==
    /\ tpc = "images"
    /\ img_i > Len(images)
    /\ body' = AppendImages(body, processed_images)
    /\ tpc' = "done"
    /\ UNCHANGED <<content, tags, images, img_i, returned, processed_images,
                   copies, assets, clock, slugVars, runVars>>

\* time passes
Tick ==
    /\ clock < MaxClock
    /\ clock' = clock + 1
    /\ UNCHANGED <<textVars, slugVars, images, img_i, returned, processed_images,
                   copies, assets, runVars>>

ImgNext ==
    \/ ImgBegin
    \/ ImgCopy
    \/ ImgAppend
    \/ Tick

SpecImg == ImgInit /\ [][ImgNext]_vars

(***************************************************************************)
(* The parser of get_notes_with_images (lines 79-101).                     *)
(***************************************************************************)
TitleMark == <<"t", "i", "t", "l", "e", ":">>

ContentMark == <<"c", "o", "n", "t", "e", "n", "t", ":">>

ImagesMark == <<"i", "m", "a", "g", "e", "s", ":">>

ContentSkip == 8

ImagesSkip == 7

\* Strip applied to every element
StripAll(ss) == [i \in 1..Len(ss) |-> Strip(ss[i])]

NotEmpty(x) == x # <<>>

\* line 94
ParseImages(images_str) ==
    With(images_str, LAMBDA v : SelectSeq(With(Split(v, <<",">>), StripAll), NotEmpty))

\* lines 84-101 for one fragment; every note of a run gets the date of the run
ParseNote(raw_note, today) ==
    LET title_end     == Find(raw_note, ContentMark)
        content_start == title_end + ContentSkip
        content_end   == Find(raw_note, ImagesMark)
    IN  [title   |-> Strip(PySlice(raw_note, 0, title_end)),
         content |-> Strip(PySlice(raw_note, content_start, content_end)),
         images  |-> With(Strip(PyFrom(raw_note, content_end + ImagesSkip)), ParseImages),
         modified_date |-> today]

\* line 79
RawNotes(out) == With(Strip(out), LAMBDA v : Split(v, TitleMark))

\* lines 79-107
ParseNotes(out, today) ==
    With(Tail(RawNotes(out)),
         LAMBDA raw_notes :
             [i \in 1..Len(raw_notes) |->
                 With(raw_notes[i], LAMBDA raw_note : ParseNote(raw_note, today))])

(***************************************************************************)
(* The exports of the model: records as the script prints them, each       *)
(* "title:" followed by one of the fragments below, joined by ", ".        *)
(***************************************************************************)
\* "Trip Notes content:(bullet) Pack #bag images:"
FragTrip ==
    <<"T", "r", "i", "p", " ", "N", "o", "t", "e", "s", " ", "c", "o",
          "n", "t", "e", "n", "t", ":", "BULLET", " ", "P", "a", "c",
          "k", " ", "#", "b", "a", "g", " ", "i", "m", "a", "g", "e",
          "s", ":">>

\* "Pic content:see images:/m.png, /a.png"
FragPic ==
    <<"P", "i", "c", " ", "c", "o", "n", "t", "e", "n", "t", ":", "s",
          "e", "e", " ", "i", "m", "a", "g", "e", "s", ":", "/", "m",
          ".", "p", "n", "g", ",", " ", "/", "a", ".", "p", "n", "g">>

\* " content:x images:": the title is empty
FragNoTitle ==
    <<" ", "c", "o", "n", "t", "e", "n", "t", ":", "x", " ", "i", "m",
          "a", "g", "e", "s", ":">>

\* "Todo content: images:": the content is empty
FragNoContent ==
    <<"T", "o", "d", "o", " ", "c", "o", "n", "t", "e", "n", "t", ":",
          " ", "i", "m", "a", "g", "e", "s", ":">>

\* "Idea images:": no content marker
FragShort ==
    <<"I", "d", "e", "a", " ", "i", "m", "a", "g", "e", "s", ":">>

\* "Shopping list images:": no content marker
FragLong ==
    <<"S", "h", "o", "p", "p", "i", "n", "g", " ", "l", "i", "s", "t",
          " ", "i", "m", "a", "g", "e", "s", ":">>

Fragments == {FragTrip, FragPic, FragNoTitle, FragNoContent, FragShort, FragLong}

\* the export that holds the fragments fs
Export(fs) == Join(<<",", " ">>, [i \in 1..Len(fs) |-> TitleMark \o fs[i]])

Exports == {Export(fs) : fs \in SeqsUpTo(Fragments, MaxNotes)}

(***************************************************************************)
(* process_content (lines 177-211) and create_markdown_post (lines         *)
(* 213-243) as publish_notes calls them.                                   *)
(***************************************************************************)

\* the for loop of lines 202-205 from attachment i on; the i-th call of
\* copy_image_to_assets happens advs[i] after the one before and its copy
\* ends as outs[i]
RECURSIVE ProcessImages(_, _, _, _, _, _, _)
ProcessImages(imgs, i, dir, now, refs, outs, advs) ==
    IF i > Len(imgs)
    THEN [refs |-> refs, dir |-> dir, now |-> now, raised |-> FALSE]
    ELSE With(CopyImageToAssets(imgs[i], dir, now + advs[i], outs[i]),
              LAMBDA r :
                  IF r.raised
                  THEN [refs |-> refs, dir |-> r.dir, now |-> now + advs[i],
                        raised |-> TRUE]
                  ELSE With(AppendRef(refs, r.ret),
                            LAMBDA refs2 :
                                ProcessImages(imgs, i + 1, r.dir, now + advs[i],
                                              refs2, outs, advs)))

\* process_content
ProcessContent(text, imgs, dir, now, outs, advs) ==
    With(ProcessImages(imgs, 1, dir, now, <<>>, outs, advs),
         LAMBDA r :
             [content |-> With(ProcessText(text), LAMBDA t : AppendImages(t, r.refs)),
              tags    |-> ExtractTags(text),
              dir     |-> r.dir,
              now     |-> r.now,
              raised  |-> r.raised])

\* lines 228-236: the document, field by field; the date field is kept to
\* the day
FrontMatter(note, processed_content, note_tags) ==
    [layout |-> "post",
     title  |-> note.title,
     date   |-> DateStr(note.modified_date),
     tags   |-> Join(<<",", " ">>, note_tags),
     body   |-> processed_content]

\* line 262
Skipped(note) == note.title = <<>> \/ note.content = <<>>

\* mutant of ShouldCommit: the commit stage runs whatever was published
ShouldCommitAlways(files) == TRUE

\* line 270
ShouldCommit(files) == files # <<>>

(***************************************************************************)
(* Spec: one run of publish_notes (lines 245-279).                         *)
(***************************************************************************)
Init ==
    /\ TextIdle
    /\ SlugIdle
    /\ ImgIdle
    /\ pc = "fetch"
    /\ stdout = <<>>
    /\ notes = <<>>
    /\ idx = 1
    /\ published_files = <<>>
    /\ posts = {}
    /\ calls = <<>>
    /\ written = <<>>
    /\ gitLog = <<>>

\* lines 70-72 and 109-114: the script fails, times out or cannot be run;
\* get_notes_with_images returns [] and publish_notes returns at line 251
FetchFails ==
    /\ pc = "fetch"
    /\ pc' = "done"
    /\ UNCHANGED <<stdout, notes, idx, published_files, posts, calls, written,
                   gitLog, textVars, slugVars, imgVars>>

\* lines 65-107 and 249-260: the script prints an export, which is parsed
FetchNotes ==
    /\ pc = "fetch"
    /\ \E out \in Exports, today \in Dates :
           /\ stdout' = out
           /\ notes' = ParseNotes(out, today)
    /\ pc' = IF notes' = <<>> THEN "done" ELSE "loop"
    /\ UNCHANGED <<idx, published_files, posts, calls, written, gitLog,
                   textVars, slugVars, imgVars>>

\* lines 262-263
SkipNote ==
    /\ pc = "loop"
    /\ idx <= Len(notes)
    /\ Skipped(notes[idx])
    /\ idx' = idx + 1
    /\ UNCHANGED <<pc, stdout, notes, published_files, posts, calls, written,
                   gitLog, textVars, slugVars, imgVars>>

\* lines 220-225
PostName(note) == MakeFilename(note.modified_date, Slugify(note.title))

\* lines 265-268: create_markdown_post writes the document
PublishNote ==
    /\ pc = "loop"
    /\ idx <= Len(notes)
    /\ ~Skipped(notes[idx])
    /\ \E outs \in [1..Len(notes[idx].images) -> CopyOutcomes],
          advs \in [1..Len(notes[idx].images) -> 0..1] :
           \E note \in {notes[idx]} :
           \E r \in {ProcessContent(note.content, note.images, assets, clock, outs, advs)} :
               /\ r.now <= MaxClock
               /\ ~r.raised
               /\ assets' = r.dir
               /\ clock' = r.now
               /\ posts' = WriteFile(posts, PostName(note),
                                     FrontMatter(note, r.content, r.tags))
               /\ published_files' = Append(published_files, PostName(note))
    /\ calls' = Append(calls, idx)
    /\ written' = Append(written, idx)
    /\ idx' = idx + 1
    /\ UNCHANGED <<pc, stdout, notes, gitLog, textVars, slugVars,
                   images, img_i, returned, processed_images, copies>>

\* line 265 when create_markdown_post raises (open or write fails at lines
\* 239-240): nothing in publish_notes catches it
PublishNoteRaises ==
    /\ pc = "loop"
    /\ idx <= Len(notes)
    /\ ~Skipped(notes[idx])
    /\ \E outs \in [1..Len(notes[idx].images) -> CopyOutcomes],
          advs \in [1..Len(notes[idx].images) -> 0..1] :
           \E note \in {notes[idx]} :
           \E r \in {ProcessContent(note.content, note.images, assets, clock, outs, advs)} :
               /\ r.now <= MaxClock
               /\ assets' = r.dir
               /\ clock' = r.now
    /\ calls' = Append(calls, idx)
    /\ pc' = "crashed"
    /\ UNCHANGED <<stdout, notes, idx, published_files, posts, written, gitLog,
                   textVars, slugVars,
                   images, img_i, returned, processed_images, copies>>

\* lines 270-279 once the loop is over
EndLoop ==
    /\ pc = "loop"
    /\ idx > Len(notes)
    /\ pc' = IF ShouldCommit(published_files) THEN "git_add" ELSE "done"
    /\ UNCHANGED <<stdout, notes, idx, published_files, posts, calls, written,
                   gitLog, textVars, slugVars, imgVars>>

\* lines 272-273; the result of the command is not looked at
GitAdd ==
    /\ pc = "git_add"
    /\ gitLog' = Append(gitLog, "add")
    /\ pc' = "git_commit"
    /\ UNCHANGED <<stdout, notes, idx, published_files, posts, calls, written,
                   textVars, slugVars, imgVars>>

\* lines 274-275
GitCommit ==
    /\ pc = "git_commit"
    /\ gitLog' = Append(gitLog, "commit")
    /\ pc' = "git_push"
    /\ UNCHANGED <<stdout, notes, idx, published_files, posts, calls, written,
                   textVars, slugVars, imgVars>>

\* lines 276-277
GitPush ==
    /\ pc = "git_push"
    /\ gitLog' = Append(gitLog, "push")
    /\ pc' = "done"
    /\ UNCHANGED <<stdout, notes, idx, published_files, posts, calls, written,
                   textVars, slugVars, imgVars>>

\* time passes while publish_notes runs
RunTick ==
    /\ pc \notin {"done", "crashed"}
    /\ clock < MaxClock
    /\ clock' = clock + 1
    /\ UNCHANGED <<textVars, slugVars, images, img_i, returned, processed_images,
                   copies, assets, runVars>>

Next ==
    \/ FetchFails
    \/ FetchNotes
    \/ SkipNote
    \/ PublishNote
    \/ PublishNoteRaises
    \/ EndLoop
    \/ GitAdd
    \/ GitCommit
    \/ GitPush
    \/ RunTick

Spec == Init /\ [][Next]_vars

(***************************************************************************)
(* Claims about process_content's text rewriting (SpecText).               *)
(***************************************************************************)
\* position i of s starts a hashtag token that stands alone: preceded by
\* whitespace or the start of s, followed by whitespace or the end of s
IsStandaloneTag(s, i) ==
    LET j == WordRunEnd(s, i + 1)
    IN  /\ s[i] = "#"
        /\ (i = 1 \/ IsSpace(s[i - 1]))
        /\ j >= i + 1
        /\ (j = Len(s) \/ IsSpace(s[j + 1]))

\* s with the leading '#' of every standalone hashtag token deleted
RECURSIVE HashesRemoved(_, _)
HashesRemoved(s, i) ==
    IF i > Len(s) THEN <<>>
    ELSE (IF IsStandaloneTag(s, i) THEN <<>> ELSE <<s[i]>>) \o HashesRemoved(s, i + 1)

\* C6: once the tags are extracted and stripped (line 183 has run), every
\* standalone hashtag token of the body text is among the tags and the body
\* is the original text with only the leading '#' of those tokens removed.
C6_TagRoundTrip ==
    tpc = "lists" =>
        /\ \A i \in 1..Len(content) :
               IsStandaloneTag(content, i) =>
                   SubSeq(content, i + 1, WordRunEnd(content, i + 1)) \in Range(tags)
        /\ body = HashesRemoved(content, 1)

\* C7: the tags process_content returns hold no duplicates.
C7_TagsDistinct ==
    tpc # "tags" =>
        \A i \in 1..Len(tags) : \A j \in 1..Len(tags) : tags[i] = tags[j] => i = j

\* the text that reaches the emphasis rules (line 197)
BeforeEmphasis(s) ==
    With(With(With(With(s, StripTags), ReplaceBullets), ReplaceNumbered), ReplaceCheckboxes)

\* s with every _x_ span rewritten to **x** and nothing else touched
UnderscoreSpansBold(s) == With(s, LAMBDA v : SubWrapped(v, "_", <<"*", "*">>, 1))

\* C10: for a body text that holds no asterisk of its own, bullet glyphs
\* only at the start of a line and at least one _x_ span, process_content
\* returns the text with every _x_ span as **x**
\* and everything else, the list markers '* ' of bullets included, as the
\* structural rewrites left it.
C10_EmphasisCascade ==
    (/\ tpc = "done"
     /\ "*" \notin Range(content)
     /\ \A i \in 1..Len(content) :
            content[i] = "BULLET" => (i = 1 \/ content[i - 1] = "NL")
     /\ With(BeforeEmphasis(content), Italics) # BeforeEmphasis(content))
        => body = With(BeforeEmphasis(content), UnderscoreSpansBold)

(***************************************************************************)
(* Claims about the attachments (SpecImg).                                 *)
(***************************************************************************)

\* the path copy_image_to_assets looks up: the attachment path less file://
SourcePath(path) ==
    IF MatchAt(path, FileScheme, 1) THEN PyFrom(path, Len(FileScheme)) ELSE path

\* copy_image_to_assets returned a published path for attachment i
Published(i) == i <= Len(returned) /\ returned[i] # None

\* C1: the assets directory holds one file per byte content and extension,
\* and two attachments of one call with identical bytes and the same
\* extension are published under the same path.
C1_ContentAddressed ==
    /\ \A f \in assets : \A g \in assets :
           (f.data = g.data /\ SplitExt(f.name) = SplitExt(g.name)) => f.name = g.name
    /\ \A i \in 1..Len(returned) : \A j \in 1..Len(returned) :
           (/\ Published(i)
            /\ Published(j)
            /\ Files[SourcePath(images[i])].data = Files[SourcePath(images[j])].data
            /\ Extension(SourcePath(images[i])) = Extension(SourcePath(images[j])))
               => returned[i] = returned[j]

\* the attachments copy_image_to_assets cannot publish whatever the copy does:
\* an empty path, a missing file, an unreadable file, a zero-length file
Unpublishable(path) ==
    LET p == SourcePath(path)
    IN  \/ p = <<>>
        \/ p \notin DOMAIN Files
        \/ ~Files[p].readable
        \/ Files[p].data = <<>>

\* the reference lines of the published attachments, in attachment order
RECURSIVE RefsOf(_)
RefsOf(rets) ==
    IF rets = <<>> THEN <<>>
    ELSE (IF Head(rets) = None THEN <<>>
          ELSE <<<<"!", "[", "I", "m", "a", "g", "e", "]", "(">> \o Head(rets) \o <<")">>>>)
         \o RefsOf(Tail(rets))

\* C5: copy_image_to_assets never raises; each call returns None or a path
\* under /assets/images/, and None for an attachment it cannot publish;
\* process_content keeps the references of exactly the published
\* attachments, in attachment order, and appends them to the body.
C5_NeverRaises ==
    /\ tpc # "raised"
    /\ Len(returned) = img_i - 1
    /\ \A i \in 1..Len(returned) :
           /\ returned[i] = None
              \/ (MatchAt(returned[i], AssetsUrl, 1) /\ Len(returned[i]) > Len(AssetsUrl))
           /\ Unpublishable(images[i]) => returned[i] = None
    /\ tpc \in {"images", "done"} => processed_images = RefsOf(returned)
    /\ (tpc = "done" /\ RefsOf(returned) # <<>>) =>
           body = ProcessText(content) \o <<"NL", "NL">>
                  \o Join(<<"NL", "NL">>, RefsOf(returned))
    /\ (tpc = "done" /\ RefsOf(returned) = <<>>) => body = ProcessText(content)

\* C5 witness: of two attachments the unreadable first one was dropped and
\* the second one is referenced in the body.
C5_Witness ==
    /\ tpc = "done"
    /\ images = <<<<"/", "u", ".", "p", "n", "g">>, <<"/", "a", ".", "p", "n", "g">>>>
    /\ returned[1] = None
    /\ returned[2] # None
    /\ body = ProcessText(content) \o <<"NL", "NL">> \o ImageRef(returned[2])

(***************************************************************************)
(* Claims about the run of publish_notes (Spec).                           *)
(***************************************************************************)
RunEnded == pc \in {"done", "crashed"}

\* the notes create_markdown_post was called for without a document written
Failed == Range(calls) \ Range(written)

\* how many times x occurs in sequence q
Count(q, x) == Cardinality({i \in 1..Len(q) : q[i] = x})

\* C2: when the run has ended it has not ended in an uncaught error, and
\* every note with a title and a content that comes after a note whose write
\* failed has had its document written.
C2_WriteFailureIsolated ==
    RunEnded =>
        /\ pc = "done"
        /\ \A i \in Failed : \A j \in (i + 1)..Len(notes) :
               ~Skipped(notes[j]) => j \in Range(written)

\* a fragment with both markers in order, a title and a content
WellFormedFragment(f) ==
    LET c == Find(f, ContentMark)
        m == Find(f, ImagesMark)
    IN  /\ c >= 0
        /\ m >= c + Len(ContentMark)
        /\ Strip(PySlice(f, 0, c)) # <<>>
        /\ Strip(PySlice(f, c + Len(ContentMark), m)) # <<>>

\* a fragment whose body marker is missing
MissingBodyMarker(f) == Find(f, ContentMark) = -1

\* the export holds two fragments, one well-formed, one without body marker
TwoFragmentScenario ==
    LET raws == Tail(RawNotes(stdout))
    IN  /\ Len(raws) = 2
        /\ \E i \in 1..2, j \in 1..2 :
               /\ i # j
               /\ WellFormedFragment(raws[i])
               /\ MissingBodyMarker(raws[j])

\* C3: a run on an export of one well-formed fragment and one fragment
\* without body marker, in which no write fails, ends without a crash with
\* exactly one document, that of the well-formed fragment.
C3_MalformedFragmentDropped ==
    (RunEnded /\ TwoFragmentScenario /\ Failed = {}) =>
        /\ pc = "done"
        /\ Len(written) = 1
        /\ WellFormedFragment(Tail(RawNotes(stdout))[written[1]])

\* C4: when the run has ended, create_markdown_post was never called for a
\* note without title or without content, and every note with both (other
\* than one whose own write failed) has exactly one document written.
C4_Filtering ==
    RunEnded =>
        \A i \in 1..Len(notes) :
            /\ Skipped(notes[i]) => (Count(calls, i) = 0 /\ Count(written, i) = 0)
            /\ (~Skipped(notes[i]) /\ i \notin Failed) => Count(written, i) = 1

\* the version-control sequence has started
GitStarted == gitLog # <<>> \/ pc \in {"git_add", "git_commit", "git_push"}

IsPrefix(q, r) == Len(q) <= Len(r) /\ \A i \in 1..Len(q) : q[i] = r[i]

\* C9: the version-control sequence starts only once the loop over the notes
\* is over and a document was written, runs add, commit, push at most once
\* in this order, and no document is written once it has started.
C9_CommitAfterLoop ==
    /\ [](GitStarted =>
              /\ pc \in {"git_add", "git_commit", "git_push", "done"}
              /\ idx > Len(notes)
              /\ written # <<>>)
    /\ [](IsPrefix(gitLog, <<"add", "commit", "push">>))
    /\ [](written = <<>> => gitLog = <<>>)
    /\ [][GitStarted => (posts' = posts /\ written' = written /\ calls' = calls)]_vars

\* C9 witness: a run over two notes, one of them filtered out, has written
\* one document and then run add, commit and push.
C9_Witness ==
    /\ pc = "done"
    /\ Len(notes) = 2
    /\ Len(written) = 1
    /\ Cardinality(posts) = 1
    /\ gitLog = <<"add", "commit", "push">>

(***************************************************************************)
(* Claims about the slug and the filename (SpecSlug).                      *)
(***************************************************************************)
SlugChars == LowerLetters \cup {"0", "1", "2", "3", "4", "5", "6", "7", "8", "9", "-"}

WellFormedSlug(sl) ==
    /\ \A i \in 1..Len(sl) : sl[i] \in SlugChars
    /\ \A i \in 1..(Len(sl) - 1) : ~(sl[i] = "-" /\ sl[i + 1] = "-")
    /\ sl # <<>> => (sl[1] # "-" /\ sl[Len(sl)] # "-")

\* C8: the slug holds only characters of [a-z0-9-], no two consecutive '-',
\* no '-' at either end, and the filename is "<YYYY-MM-DD>-<slug>.md" with
\* the slug of the title and the date of the note.
C8_SlugAndFilename ==
    /\ spc \in {"filename", "done"} => WellFormedSlug(slug)
    /\ spc = "done" =>
           /\ filename = DateStr(date) \o <<"-">> \o slug \o <<".", "m", "d">>
           /\ Len(DateStr(date)) = 10
           /\ filename = MakeFilename(date, Slugify(title))

\* C8 witness: a title with an upper-case letter, a non-ASCII letter and a
\* run of separators has been turned into a slug and a filename.
C8_Witness ==
    /\ spc = "done"
    /\ title = <<"A", " ", "E_ACUTE", "1">>
    /\ slug = <<"a", "-", "1">>
    /\ date = <<2024, 1, 5>>
    /\ filename = <<"2", "0", "2", "4", "-", "0", "1", "-", "0", "5", "-",
                    "a", "-", "1", ".", "m", "d">>

====
